---- MODULE Spec2Model ----
(***************************************************************************)
(* A model of hpat.phoru.phorulib: the Rule class (target mini-language,   *)
(* pattern assembly, application) and its translation to a jq program.     *)
(*                                                                         *)
(* Strings are sequences of tokens.  A text is a sequence of one-character *)
(* strings.  A regular expression is kept as the sequence of items it      *)
(* consists of; Render gives its text, token by token, and the code's own  *)
(* regular expressions (GROUP, BACKREF, REPLREF, MAP_CALL, GROUP_REF) scan *)
(* these tokens the way the re module scans the characters.                *)
(***************************************************************************)
EXTENDS Integers, Sequences, FiniteSets, TLC

VARIABLES
    source,       \* Rule.source: the source sub-pattern
    prefix,       \* Rule.prefix
    suffix,       \* Rule.suffix
    target,       \* Rule.target: the template, as the tokens string.Formatter parses
    count,        \* Rule.count
    flags,        \* Rule.flags
    maps,         \* Rule.maps: mapping name -> table
    pc,           \* "format" while Rule.__init__ runs, then "built" or "failed"
    idx,          \* position of the next template token of MiniLanguage.format
    formatter,    \* the MiniLanguage object: prefix_groups, suffix_groups, source_seen, map_calls
    result,       \* what super().format has produced so far
    replacement,  \* Rule.replacement
    pattern,      \* Rule.pattern
    map_calls,    \* Rule.map_calls
    error,        \* the exception that ended Rule.__init__
    text,         \* the argument of the last call of the rule
    output,       \* what the last call returned or raised
    calls,        \* how many times the rule has been called
    jq,           \* what to_jq returned or raised
    jq_output,    \* what the emitted program gave on text
    shown,        \* what repr(rule) returned
    twin          \* a second rule, constructed from the same arguments, and its repr

vars == <<source, prefix, suffix, target, count, flags, maps, pc, idx, formatter,
          result, replacement, pattern, map_calls, error, text, output, calls, jq, jq_output,
          shown, twin>>

-----------------------------------------------------------------------------
(* Bounds *)

\* longest target template, in tokens, of the compilation universe
MaxTpl == 3
\* longest input text
MaxLen == 3

-----------------------------------------------------------------------------
(* Sequences *)

Range(s) == {s[i] : i \in DOMAIN s}

RECURSIVE Flatten(_)
Flatten(ss) == IF ss = <<>> THEN <<>> ELSE Head(ss) \o Flatten(Tail(ss))

RECURSIVE Join(_, _)
Join(ss, sep) ==
    IF ss = <<>> THEN <<>>
    ELSE IF Len(ss) = 1 THEN <<ss[1]>>
    ELSE <<ss[1], sep>> \o Join(Tail(ss), sep)

SeqsUpTo(S, n) == UNION {[1..m -> S] : m \in 0..n}

StartsWith(s, i, p) ==
    /\ i + Len(p) - 1 <= Len(s)
    /\ \A j \in 1..Len(p) : s[i + j - 1] = p[j]

\* list.index(x): the first position of x, 0 when x is not in the list
Index(s, x) ==
    IF x \in Range(s) THEN CHOOSE i \in DOMAIN s : s[i] = x /\ \A j \in 1..(i-1) : s[j] # x
    ELSE 0

\* list.pop(i)
Pop(s, i) == SubSeq(s, 1, i - 1) \o SubSeq(s, i + 1, Len(s))

-----------------------------------------------------------------------------
(* Sub-patterns (Ezre objects) and their text *)

Lit(c)       == [k |-> "lit", n |-> "", cs |-> <<c>>, body |-> <<>>]
Alt(cs)      == [k |-> "alt", n |-> "", cs |-> cs, body |-> <<>>]
Grp(n, body) == [k |-> "grp", n |-> n, cs |-> <<>>, body |-> body]
Ref(n)       == [k |-> "ref", n |-> n, cs |-> <<>>, body |-> <<>>]

\* an escaped character of a regular expression, and the double quote
EscDot == "\\."
Quote  == "\""

Punct == {"(?P<", "(?P=", "(?<", "\\k<", ">", "(", ")", "|", "\\g<", "{", "}", "[", "]", ",", "+", "-", "\\(.", "\\($",
          EscDot, Quote}

\* \w+
IsWord(t) == t \notin Punct

\* Ezre.re: the text of a sub-pattern
RECURSIVE Render(_)
RenderItem(it) ==
    CASE it.k = "lit" -> it.cs
      [] it.k = "alt" -> <<"(">> \o Join(it.cs, "|") \o <<")">>
      [] it.k = "grp" -> <<"(?P<", it.n, ">">> \o Render(it.body) \o <<")">>
      [] it.k = "ref" -> <<"(?P=", it.n, ")">>
Render(items) ==
    IF items = <<>> THEN <<>> ELSE RenderItem(Head(items)) \o Render(Tail(items))

\* Ezre.group(name)
EzreGroup(p, name) == <<Grp(name, p)>>

\* _to_jq.GROUP.finditer: \(\?P<(?P<name>\w+)>(?P<pattern>.*?)\)
RECURSIVE GROUP_finditer(_, _)
GROUP_finditer(toks, i) ==
    IF i > Len(toks) THEN <<>>
    ELSE IF /\ toks[i] = "(?P<"
            /\ i + 2 <= Len(toks)
            /\ IsWord(toks[i+1])
            /\ toks[i+2] = ">"
            /\ \E j \in (i+3)..Len(toks) : toks[j] = ")"
         THEN LET j == CHOOSE j \in (i+3)..Len(toks) :
                          /\ toks[j] = ")"
                          /\ \A h \in (i+3)..(j-1) : toks[h] # ")"
              IN  <<[start |-> i, name_at |-> i + 1, name |-> toks[i+1], end |-> j]>>
                      \o GROUP_finditer(toks, j + 1)
         ELSE GROUP_finditer(toks, i + 1)

\* _to_jq.BACKREF.finditer: \(\?P=(?P<name>\w+)\)
RECURSIVE BACKREF_finditer(_, _)
BACKREF_finditer(toks, i) ==
    IF i > Len(toks) THEN <<>>
    ELSE IF /\ toks[i] = "(?P="
            /\ i + 2 <= Len(toks)
            /\ IsWord(toks[i+1])
            /\ toks[i+2] = ")"
         THEN <<[start |-> i, name_at |-> i + 1, name |-> toks[i+1], end |-> i + 2]>>
                  \o BACKREF_finditer(toks, i + 3)
         ELSE BACKREF_finditer(toks, i + 1)

RECURSIVE SortedKeys(_)
SortedKeys(S) ==
    IF S = {} THEN <<>>
    ELSE LET m == CHOOSE x \in S : \A y \in S : x <= y
         IN  <<m>> \o SortedKeys(S \ {m})

\* Rule.get_groups: the names at the positions the two scans found, by position
get_groups(p) ==
    LET toks == Render(p)
        found == BACKREF_finditer(toks, 1) \o GROUP_finditer(toks, 1)
        groups == [key \in {found[i].name_at : i \in DOMAIN found} |->
                      LET i == CHOOSE i \in DOMAIN found :
                                   /\ found[i].name_at = key
                                   /\ \A h \in DOMAIN found : found[h].name_at = key => h <= i
                      IN  found[i].name]
        keys == SortedKeys(DOMAIN groups)
    IN  [i \in DOMAIN keys |-> groups[keys[i]]]

-----------------------------------------------------------------------------
(* Exceptions and results *)

NoKey == [tuple |-> FALSE, parts |-> <<>>]
NoError == [type |-> "", why |-> "", key |-> NoKey, mapping |-> ""]
Raise(type, why) == [type |-> type, why |-> why, key |-> NoKey, mapping |-> ""]

\* what a string.Formatter hook gives back: a value and the formatter it leaves, or an exception
Returned(val, fm) == [ok |-> TRUE, val |-> val, fm |-> fm, err |-> NoError]
Raised(err, fm)   == [ok |-> FALSE, val |-> <<>>, fm |-> fm, err |-> err]

-----------------------------------------------------------------------------
(* Rule.MiniLanguage *)

TLit(s)      == [k |-> "lit", s |-> s, name |-> <<>>]
TField(name) == [k |-> "field", s |-> "", name |-> name]

None == "<None>"

\* r"\g<group>"
GRef(group) == <<"\\g<", group, ">">>

\* MiniLanguage.MAP_CALL.match: (?P<map_name>\w+)\[(?P<groups>\w+(,\w+)*)\]
MAP_CALL_ends(name) ==
    {e \in 3..(Len(name) - 1) :
        /\ (e - 3) % 2 = 0
        /\ \A j \in 3..e : IF (j - 3) % 2 = 0 THEN IsWord(name[j]) ELSE name[j] = ","
        /\ name[e + 1] = "]"}
MAP_CALL_match(name) ==
    IF Len(name) >= 4 /\ IsWord(name[1]) /\ name[2] = "[" /\ MAP_CALL_ends(name) # {}
    THEN LET e == CHOOSE e \in MAP_CALL_ends(name) : \A f \in MAP_CALL_ends(name) : f <= e
         IN  [ok |-> TRUE, map_name |-> name[1],
              groups |-> [i \in 1..((e - 3) \div 2 + 1) |-> name[3 + 2 * (i - 1)]]]
    ELSE [ok |-> FALSE, map_name |-> "", groups |-> <<>>]

\* MiniLanguage.GROUP_REF.match: (?P<sign>(\+|-)?)(?P<group>\w+)
GROUP_REF_match(key) ==
    IF Len(key) >= 2 /\ key[1] \in {"+", "-"} /\ IsWord(key[2])
    THEN [ok |-> TRUE, sign |-> key[1], group |-> key[2]]
    ELSE IF Len(key) >= 1 /\ IsWord(key[1])
    THEN [ok |-> TRUE, sign |-> "", group |-> key[1]]
    ELSE [ok |-> FALSE, sign |-> "", group |-> ""]

\* MiniLanguage.__init__
MiniLanguage(prefix_groups, suffix_groups, ms) ==
    [prefix_groups |-> prefix_groups, suffix_groups |-> suffix_groups,
     source_seen |-> FALSE, maps |-> ms, map_calls |-> {}]

\* get_value without the check that '{-_}' comes after no other consumption of the source
get_value_unchecked(key, fm) ==
    IF key = <<"_">>
    THEN IF ~fm.source_seen
         THEN Returned(GRef("source"), [fm EXCEPT !.source_seen = TRUE])
         ELSE Raised(Raise("ValueError", "duplicated source"), fm)
    ELSE LET match == GROUP_REF_match(key) IN
         IF match.ok
         THEN LET sign == match.sign
                  group == IF match.group = "_" THEN "source" ELSE match.group
              IN  IF sign = None
                  THEN Returned(<<group>>, fm)
                  ELSE IF sign = "+"
                  THEN Returned(GRef(group), fm)
                  ELSE IF group = "source"
                  THEN Returned(<<>>, [fm EXCEPT !.source_seen = TRUE])
                  ELSE LET seen == fm.source_seen
                           sequence == IF ~seen THEN fm.prefix_groups ELSE fm.suffix_groups
                           index == Index(sequence, group)
                       IN  IF index = 0
                           THEN Raised(Raise("ValueError", "x not in list"), fm)
                           ELSE IF ~seen
                           THEN Returned(<<>>, [fm EXCEPT !.prefix_groups = Pop(sequence, index)])
                           ELSE Returned(<<>>, [fm EXCEPT !.suffix_groups = Pop(sequence, index)])
         ELSE Raised(Raise("ValueError", "unsupported key format"), fm)

\* MiniLanguage.get_value
get_value(key, fm) ==
    IF key = <<"_">>
    THEN IF ~fm.source_seen
         THEN Returned(GRef("source"), [fm EXCEPT !.source_seen = TRUE])
         ELSE Raised(Raise("ValueError", "duplicated source"), fm)
    ELSE LET match == GROUP_REF_match(key) IN
         IF match.ok
         THEN LET sign == match.sign
                  group == IF match.group = "_" THEN "source" ELSE match.group
              IN  IF sign = None
                  THEN Returned(<<group>>, fm)
                  ELSE IF sign = "+"
                  THEN Returned(GRef(group), fm)
                  ELSE IF group = "source"
                  THEN IF ~fm.source_seen
                       THEN Returned(<<>>, [fm EXCEPT !.source_seen = TRUE])
                       ELSE Raised(Raise("ValueError", "key '{-_}' cannot be duplicated"), fm)
                  ELSE LET seen == fm.source_seen
                           sequence == IF ~seen THEN fm.prefix_groups ELSE fm.suffix_groups
                           index == Index(sequence, group)
                       IN  IF index = 0
                           THEN Raised(Raise("ValueError", "x not in list"), fm)
                           ELSE IF ~seen
                           THEN Returned(<<>>, [fm EXCEPT !.prefix_groups = Pop(sequence, index)])
                           ELSE Returned(<<>>, [fm EXCEPT !.suffix_groups = Pop(sequence, index)])
         ELSE Raised(Raise("ValueError", "unsupported key format"), fm)

\* _string.formatter_field_name_split: the part of the field name before its first '['
FieldFirst(field_name) ==
    IF "[" \in Range(field_name)
    THEN SubSeq(field_name, 1, Index(field_name, "[") - 1)
    ELSE field_name

\* get_field without the check that the mapping is declared
get_field_undeclared(field_name, fm) ==
    LET match == MAP_CALL_match(field_name) IN
    IF match.ok
    THEN Returned(<<"{">> \o field_name \o <<"}">>,
                  [fm EXCEPT !.map_calls = @ \cup {<<match.map_name>> \o match.groups}])
    ELSE get_value(FieldFirst(field_name), fm)

\* MiniLanguage.get_field
get_field(field_name, fm) ==
    LET match == MAP_CALL_match(field_name) IN
    IF match.ok
    THEN IF match.map_name \in DOMAIN fm.maps
         THEN Returned(<<"{">> \o field_name \o <<"}">>,
                       [fm EXCEPT !.map_calls = @ \cup {<<match.map_name>> \o match.groups}])
         ELSE Raised(Raise("ValueError", "mapping is used but not declared"), fm)
    ELSE get_value(FieldFirst(field_name), fm)

\* format with the groups left in both pools put after the result
format_appended(res, fm) ==
    LET pre == Flatten([i \in DOMAIN fm.prefix_groups |-> GRef(fm.prefix_groups[i])])
        suf == Flatten([i \in DOMAIN fm.suffix_groups |-> GRef(fm.suffix_groups[i])])
    IN  res \o pre \o suf

\* format without the suffix groups left in the pool
format_no_suffix(res, fm) ==
    LET pre == Flatten([i \in DOMAIN fm.prefix_groups |-> GRef(fm.prefix_groups[i])])
    IN  pre \o res

\* the tail of MiniLanguage.format: the groups left in the pools, around the result
format(res, fm) ==
    LET pre == Flatten([i \in DOMAIN fm.prefix_groups |-> GRef(fm.prefix_groups[i])])
        suf == Flatten([i \in DOMAIN fm.suffix_groups |-> GRef(fm.suffix_groups[i])])
    IN  pre \o res \o suf

\* the head of Rule.get_replacement: the pools the formatter starts with
get_replacement(pre, suf, ms) ==
    LET pg == get_groups(pre)
        sg == get_groups(suf)
    IN  MiniLanguage(IF pg = <<>> THEN <<"prefix">> ELSE pg,
                     IF sg = <<>> THEN <<"suffix">> ELSE sg,
                     ms)

-----------------------------------------------------------------------------
(* Rule.get_pattern and re.compile *)

\* get_pattern with default groups supplied wherever no group is defined
get_pattern_defined(pre, src, suf) ==
    LET prefix_pattern == IF GROUP_finditer(Render(pre), 1) = <<>> THEN EzreGroup(pre, "prefix") ELSE pre
        suffix_pattern == IF GROUP_finditer(Render(suf), 1) = <<>> THEN EzreGroup(suf, "suffix") ELSE suf
        source_pattern == IF GROUP_finditer(Render(src), 1) = <<>> THEN EzreGroup(src, "source") ELSE src
    IN  prefix_pattern \o source_pattern \o suffix_pattern

\* the sub-patterns as get_pattern concatenates them
get_pattern(pre, src, suf) ==
    LET prefix_pattern == IF get_groups(pre) = <<>> THEN EzreGroup(pre, "prefix") ELSE pre
        suffix_pattern == IF get_groups(suf) = <<>> THEN EzreGroup(suf, "suffix") ELSE suf
        source_pattern == IF get_groups(src) = <<>> THEN EzreGroup(src, "source") ELSE src
    IN  prefix_pattern \o source_pattern \o suffix_pattern

\* the group names a pattern defines and those it refers back to, in the order of the text
RECURSIVE Defs(_)
Defs(items) ==
    IF items = <<>> THEN <<>>
    ELSE LET it == Head(items) IN
         (IF it.k = "grp" THEN <<it.n>> \o Defs(it.body) ELSE <<>>) \o Defs(Tail(items))

\* re.compile accepts a pattern when no group name is defined twice and every
\* backreference names a group that is closed before it
RECURSIVE CompileFrom(_, _)
CompileFrom(items, defined) ==
    IF items = <<>> THEN [ok |-> TRUE, defined |-> defined]
    ELSE LET it == Head(items) IN
         IF it.k = "ref"
         THEN IF it.n \in defined THEN CompileFrom(Tail(items), defined)
              ELSE [ok |-> FALSE, defined |-> defined]
         ELSE IF it.k = "grp"
         THEN IF it.n \in defined THEN [ok |-> FALSE, defined |-> defined]
              ELSE LET inner == CompileFrom(it.body, defined) IN
                   IF inner.ok /\ it.n \notin inner.defined
                   THEN CompileFrom(Tail(items), inner.defined \cup {it.n})
                   ELSE [ok |-> FALSE, defined |-> defined]
         ELSE CompileFrom(Tail(items), defined)

re_compile_ok(items) == CompileFrom(items, {}).ok

-----------------------------------------------------------------------------
(* The rules and texts the model draws from *)

Chars == {"a", "b"}
Texts == SeqsUpTo(Chars, MaxLen)

AB == Alt(<<"a", "b">>)

Key(s)      == [tuple |-> FALSE, parts |-> <<s>>]
TKey(parts) == [tuple |-> TRUE, parts |-> parts]

NoResult == [state |-> "none", val |-> <<>>, err |-> NoError]
Value(val) == [state |-> "returned", val |-> val, err |-> NoError]
Failure(err) == [state |-> "raised", val |-> <<>>, err |-> err]

NoRule == [state |-> "none", pattern |-> <<>>, replacement |-> <<>>, map_calls |-> {}, shown |-> <<>>]
NoProgram == [state |-> "none", decls |-> <<>>, regex |-> <<>>, repl |-> <<>>, err |-> NoError]

\* the template tokens of the compilation universe
CompileTokens ==
    { TLit("x"),
      TField(<<"_">>), TField(<<"-", "_">>), TField(<<"+", "_">>),
      TField(<<"-", "v">>), TField(<<"+", "v">>), TField(<<"v">>),
      TField(<<"m", "[", "v", "]">>), TField(<<"u", "[", "v", ",", "source", "]">>) }

\* prefix, source and suffix of the compilation universe
CompilePatterns ==
    { <<<<>>, <<Lit("a")>>, <<>>>>,
      <<<<Grp("v", <<AB>>)>>, <<Lit("a")>>, <<Ref("v")>>>>,
      <<<<Grp("v", <<AB>>)>>, <<AB>>, <<Grp("c", <<Lit("b")>>)>>>>,
      <<<<>>, <<Grp("v", <<AB>>)>>, <<Grp("c", <<Lit("b")>>), Ref("v")>>>>,
      <<<<Grp("c", <<Lit("b")>>), Grp("v", <<AB>>)>>, <<Lit("a")>>, <<Ref("v"), Ref("v")>>>> }

Table1 == [key \in {Key(<<"a">>)} |-> <<"b">>]

CompileMaps == { [n \in {} |-> Table1], [n \in {"m"} |-> Table1] }

\* the rules of the application universe
Sources == { <<>>, <<Lit("a")>>, <<Lit("a"), Lit("a")>>, <<AB>>, <<Grp("v", <<AB>>)>> }
Prefixes == { <<>>, <<Lit("b")>>, <<Grp("c", <<AB>>)>>, <<Lit("b"), Grp("c", <<Lit("a")>>)>> }
Suffixes == { <<>>, <<Lit("b")>>, <<Ref("c")>>, <<Grp("v", <<Lit("b")>>)>> }

Targets ==
    { <<>>,
      <<TLit("x")>>,
      <<TLit("b")>>,
      <<TField(<<"_">>), TLit("x")>>,
      <<TField(<<"-", "prefix">>), TField(<<"_">>), TField(<<"+", "prefix">>)>>,
      <<TField(<<"_">>), TField(<<"+", "w">>)>>,
      <<TField(<<"-", "_">>), TField(<<"m", "[", "source", "]">>)>>,
      <<TField(<<"-", "_">>), TField(<<"n", "[", "source", "]">>)>>,
      <<TField(<<"-", "_">>), TField(<<"t", "[", "c", ",", "source", "]">>)>>,
      <<TField(<<"-", "_">>), TField(<<"n", "[", "c", "]">>), TField(<<"n", "[", "source", "]">>)>>,
      <<TField(<<"-", "_">>), TField(<<"m", "[", "source", "]">>), TField(<<"n", "[", "source", "]">>)>> }

\* m lacks the key b, n has every key, t is keyed by two captures and lacks (b, b)
TableM == [key \in {Key(<<"a">>)} |-> <<"b">>]
TableN == [key \in {Key(<<"a">>), Key(<<"b">>)} |-> IF key = Key(<<"a">>) THEN <<"b">> ELSE <<"a">>]
TableT == [key \in {TKey(<<<<"a">>, <<"a">>>>), TKey(<<<<"a">>, <<"b">>>>), TKey(<<<<"b">>, <<"a">>>>)} |->
              IF key.parts[1] = key.parts[2] THEN <<"x">> ELSE key.parts[1]]

MapSets ==
    { [n \in {} |-> TableM],
      [n \in {"m", "n", "t"} |-> CASE n = "m" -> TableM [] n = "n" -> TableN [] n = "t" -> TableT] }

\* count and flags: the defaults, count=1, flags=re.IGNORECASE
Options == { <<0, 0>>, <<1, 0>>, <<0, 2>> }

-----------------------------------------------------------------------------
(* Rule.__init__ *)

Start(pre, src, suf, tgt, cnt, flg, ms) ==
    /\ prefix = pre /\ source = src /\ suffix = suf /\ target = tgt
    /\ count = cnt /\ flags = flg /\ maps = ms
    /\ pc = "format" /\ idx = 1
    /\ formatter = get_replacement(pre, suf, ms)
    /\ result = <<>>
    /\ replacement = <<>> /\ pattern = <<>> /\ map_calls = {}
    /\ error = NoError
    /\ text = <<>> /\ output = NoResult /\ calls = 0
    /\ jq = NoProgram /\ jq_output = NoResult
    /\ shown = NoResult /\ twin = NoRule

InitCompile ==
    \E p \in CompilePatterns, tgt \in SeqsUpTo(CompileTokens, MaxTpl), ms \in CompileMaps :
        Start(p[1], p[2], p[3], tgt, 0, 0, ms)

\* string.Formatter.vformat on the next token of the target
FormatStep ==
    /\ pc = "format" /\ idx <= Len(target)
    /\ LET tok == target[idx] IN
       IF tok.k = "lit"
       THEN /\ result' = Append(result, tok.s)
            /\ idx' = idx + 1
            /\ UNCHANGED <<formatter, pc, error>>
       ELSE LET r == get_field(tok.name, formatter) IN
            IF r.ok
            THEN /\ result' = result \o r.val
                 /\ formatter' = r.fm
                 /\ idx' = idx + 1
                 /\ UNCHANGED <<pc, error>>
            ELSE /\ pc' = "failed"
                 /\ error' = r.err
                 /\ UNCHANGED <<result, formatter, idx>>
    /\ UNCHANGED <<source, prefix, suffix, target, count, flags, maps,
                   replacement, pattern, map_calls, text, output, calls, jq, jq_output, shown, twin>>

\* the end of MiniLanguage.format and of get_replacement, then get_pattern
FormatEnd ==
    /\ pc = "format" /\ idx > Len(target)
    /\ replacement' = format(result, formatter)
    /\ map_calls' = map_calls \cup formatter.map_calls
    /\ LET p == get_pattern(prefix, source, suffix) IN
       IF re_compile_ok(p)
       THEN /\ pattern' = p
            /\ pc' = "built"
            /\ error' = error
       ELSE /\ pattern' = pattern
            /\ pc' = "failed"
            /\ error' = Raise("re.error", "bad group name or reference")
    /\ UNCHANGED <<source, prefix, suffix, target, count, flags, maps, idx, formatter,
                   result, text, output, calls, jq, jq_output, shown, twin>>

NextCompile == FormatStep \/ FormatEnd

SpecCompile == InitCompile /\ [][NextCompile]_vars

-----------------------------------------------------------------------------
(* The re module: matching, template expansion, substitution *)

NoCapture == [set |-> FALSE, s |-> <<>>]
Captured(s) == [set |-> TRUE, s |-> s]

NoMatch == [ok |-> FALSE, start |-> 0, end |-> 0, caps |-> <<>>]

\* the match of the items at position i of t, with the captures made so far
RECURSIVE MatchSeq(_, _, _, _)
MatchSeq(items, t, i, caps) ==
    IF items = <<>> THEN [ok |-> TRUE, start |-> i, end |-> i, caps |-> caps]
    ELSE LET it == Head(items)
             rest == Tail(items)
         IN  CASE it.k = "lit" ->
                    IF i <= Len(t) /\ t[i] = it.cs[1]
                    THEN MatchSeq(rest, t, i + 1, caps) ELSE NoMatch
               [] it.k = "alt" ->
                    IF i <= Len(t) /\ t[i] \in Range(it.cs)
                    THEN MatchSeq(rest, t, i + 1, caps) ELSE NoMatch
               [] it.k = "grp" ->
                    LET r == MatchSeq(it.body, t, i, caps) IN
                    IF r.ok
                    THEN MatchSeq(rest, t, r.end,
                                  [r.caps EXCEPT ![it.n] = Captured(SubSeq(t, i, r.end - 1))])
                    ELSE NoMatch
               [] it.k = "ref" ->
                    IF caps[it.n].set /\ StartsWith(t, i, caps[it.n].s)
                    THEN MatchSeq(rest, t, i + Len(caps[it.n].s), caps) ELSE NoMatch

\* Pattern.match at position i
MatchAt(pat, t, i) ==
    LET r == MatchSeq(pat, t, i, [n \in Range(Defs(pat)) |-> NoCapture])
    IN  IF r.ok THEN [r EXCEPT !.start = i] ELSE NoMatch

\* _to_jq.REPLREF, as the re module reads a template: the names after \g<
TemplateRefs(repl) ==
    {repl[i + 1] : i \in {j \in 1..(Len(repl) - 2) :
                              repl[j] = "\\g<" /\ IsWord(repl[j + 1]) /\ repl[j + 2] = ">"}}

\* Match.expand on a template whose group names the pattern defines
RECURSIVE Expand(_, _)
Expand(repl, caps) ==
    IF repl = <<>> THEN <<>>
    ELSE IF Len(repl) >= 3 /\ repl[1] = "\\g<" /\ IsWord(repl[2]) /\ repl[3] = ">"
    THEN caps[repl[2]].s \o Expand(SubSeq(repl, 4, Len(repl)), caps)
    ELSE <<repl[1]>> \o Expand(Tail(repl), caps)

\* Match.expand
match_expand(repl, pat, m) ==
    IF TemplateRefs(repl) \subseteq Range(Defs(pat))
    THEN Value(Expand(repl, m.caps))
    ELSE Failure(Raise("IndexError", "unknown group name"))

\* str.format(**data) on a string of literal text and {name[index]} fields
RECURSIVE str_format(_, _)
str_format(str, data) ==
    IF str = <<>> THEN Value(<<>>)
    ELSE IF str[1] = "{"
    THEN IF Len(str) >= 2 /\ str[2] = "{"
         THEN LET rest == str_format(SubSeq(str, 3, Len(str)), data) IN
              IF rest.state = "returned" THEN Value(<<"{">> \o rest.val) ELSE rest
         ELSE IF "}" \notin Range(str)
         THEN Failure(Raise("ValueError", "expected '}' before end of string"))
         ELSE LET close == Index(str, "}")
                  field == SubSeq(str, 2, close - 1)
                  first == FieldFirst(field)
                  index == SubSeq(field, Len(first) + 2, Len(field) - 1)
                  rest == str_format(SubSeq(str, close + 1, Len(str)), data)
              IN  IF Len(first) # 1 \/ first[1] \notin DOMAIN data
                  THEN Failure(Raise("KeyError", "format field"))
                  ELSE IF Len(field) < Len(first) + 2 \/ field[Len(field)] # "]"
                  THEN Failure(Raise("ValueError", "format field"))
                  ELSE IF index \notin DOMAIN data[first[1]]
                  THEN Failure(Raise("KeyError", "format index"))
                  ELSE IF rest.state = "returned"
                  THEN Value(data[first[1]][index] \o rest.val) ELSE rest
    ELSE IF str[1] = "}"
    THEN IF Len(str) >= 2 /\ str[2] = "}"
         THEN LET rest == str_format(SubSeq(str, 3, Len(str)), data) IN
              IF rest.state = "returned" THEN Value(<<"}">> \o rest.val) ELSE rest
         ELSE Failure(Raise("ValueError", "Single '}' encountered in format string"))
    ELSE LET rest == str_format(Tail(str), data) IN
         IF rest.state = "returned" THEN Value(<<str[1]>> \o rest.val) ELSE rest

\* Match.group(*groups): the key a mapping call looks up
PyNone == <<"<None>">>
MatchGroup(groups, m) ==
    LET one(g) == IF m.caps[g].set THEN m.caps[g].s ELSE PyNone IN
    IF Len(groups) = 1 THEN Key(one(groups[1]))
    ELSE TKey([i \in DOMAIN groups |-> one(groups[i])])

\* Rule.replacer; order is the order in which the set map_calls is iterated
replacer(rule, m, order) ==
    LET names == DOMAIN m.caps
        bad == {i \in DOMAIN order :
                   \/ \E g \in Range(Tail(order[i])) : g \notin names
                   \/ MatchGroup(Tail(order[i]), m) \notin DOMAIN rule.maps[order[i][1]]}
    IN  IF bad # {}
        THEN LET i == CHOOSE i \in bad : \A j \in bad : i <= j
                 groups == Tail(order[i])
             IN  IF \E g \in Range(groups) : g \notin names
                 THEN Failure(Raise("IndexError", "no such group"))
                 ELSE Failure([type |-> "KeyError", why |-> "", mapping |-> "",
                               key |-> MatchGroup(groups, m)])
        ELSE LET data == [mn \in {order[i][1] : i \in DOMAIN order} |->
                            [j \in {Join(Tail(order[i]), ",") : i \in {h \in DOMAIN order : order[h][1] = mn}} |->
                                LET i == CHOOSE i \in DOMAIN order :
                                             order[i][1] = mn /\ Join(Tail(order[i]), ",") = j
                                IN  rule.maps[mn][MatchGroup(Tail(order[i]), m)]]]
                 expanded == match_expand(rule.replacement, rule.pattern, m)
             IN  IF expanded.state = "returned"
                 THEN str_format(expanded.val, data)
                 ELSE expanded

\* re.sub from position pos on, after n substitutions
RECURSIVE re_sub_from(_, _, _, _, _, _)
re_sub_from(rule, t, order, pos, n, must_advance) ==
    IF rule.count # 0 /\ n >= rule.count THEN Value(SubSeq(t, pos, Len(t)))
    ELSE LET hits == {i \in pos..(Len(t) + 1) :
                         LET m == MatchAt(rule.pattern, t, i) IN
                         m.ok /\ ~(must_advance /\ i = pos /\ m.end = i)}
         IN  IF hits = {} THEN Value(SubSeq(t, pos, Len(t)))
             ELSE LET i == CHOOSE i \in hits : \A j \in hits : i <= j
                      m == MatchAt(rule.pattern, t, i)
                      r == IF rule.map_calls = {}
                           THEN match_expand(rule.replacement, rule.pattern, m)
                           ELSE replacer(rule, m, order)
                  IN  IF r.state # "returned" THEN r
                      ELSE LET rest == re_sub_from(rule, t, order, m.end, n + 1, m.end = i) IN
                           IF rest.state # "returned" THEN rest
                           ELSE Value(SubSeq(t, pos, i - 1) \o r.val \o rest.val)

\* re.sub(pattern, repl, string, count, flags) with a compiled pattern
re_sub(rule, t, order) ==
    IF rule.flags # 0
    THEN Failure(Raise("ValueError", "cannot process flags argument with a compiled pattern"))
    ELSE IF rule.map_calls = {} /\ ~(TemplateRefs(rule.replacement) \subseteq Range(Defs(rule.pattern)))
    THEN Failure(Raise("IndexError", "unknown group name"))
    ELSE re_sub_from(rule, t, order, 1, 0, FALSE)

\* a call that replaces the first occurrence only
Call_once(rule, t, order) == re_sub([rule EXCEPT !.count = 1], t, order)

\* Rule.__call__
Call(rule, t, order) == re_sub(rule, t, order)

\* the orders in which a set can be iterated
Orders(S) == {o \in [1..Cardinality(S) -> S] : Range(o) = S}

-----------------------------------------------------------------------------
(* _to_jq: the translation to a jq program *)

\* GROUP.sub(r"(?<\g<name>>\g<pattern>)", regex)
RECURSIVE GROUP_sub(_, _)
GROUP_sub(toks, i) ==
    IF i > Len(toks) THEN <<>>
    ELSE LET here == GROUP_finditer(SubSeq(toks, 1, Len(toks)), i) IN
         IF here # <<>> /\ here[1].start = i
         THEN <<"(?<", here[1].name, ">">> \o SubSeq(toks, i + 3, here[1].end - 1) \o <<")">>
                  \o GROUP_sub(toks, here[1].end + 1)
         ELSE <<toks[i]>> \o GROUP_sub(toks, i + 1)

\* BACKREF.sub(r"\\\\k<\g<name>>", regex): two backslashes, k<name>
RECURSIVE BACKREF_sub(_, _)
BACKREF_sub(toks, i) ==
    IF i > Len(toks) THEN <<>>
    ELSE IF i + 2 <= Len(toks) /\ toks[i] = "(?P=" /\ IsWord(toks[i+1]) /\ toks[i+2] = ")"
    THEN <<"\\\\k<", toks[i+1], ">">> \o BACKREF_sub(toks, i + 3)
    ELSE <<toks[i]>> \o BACKREF_sub(toks, i + 1)

\* REPLREF.sub(r"\(.\g<name>)", replacement)
RECURSIVE REPLREF_sub(_, _)
REPLREF_sub(toks, i) ==
    IF i > Len(toks) THEN <<>>
    ELSE IF i + 2 <= Len(toks) /\ toks[i] = "\\g<" /\ IsWord(toks[i+1]) /\ toks[i+2] = ">"
    THEN <<"\\(.", toks[i+1], ")">> \o REPLREF_sub(toks, i + 3)
    ELSE <<toks[i]>> \o REPLREF_sub(toks, i + 1)

\* _to_jq.replace_map_call
replace_map_call(map_name, groups) ==
    <<"\\($", map_name>> \o Flatten([i \in DOMAIN groups |-> <<"[.", groups[i], "]">>]) \o <<")">>

\* MAP_CALL.sub(cls.replace_map_call, replacement)
RECURSIVE MAP_CALL_sub(_, _)
MAP_CALL_sub(toks, i) ==
    IF i > Len(toks) THEN <<>>
    ELSE IF toks[i] = "{" /\ MAP_CALL_match(SubSeq(toks, i + 1, Len(toks))).ok
    THEN LET match == MAP_CALL_match(SubSeq(toks, i + 1, Len(toks)))
             close == i + 2 * Len(match.groups) + 3
         IN  IF close <= Len(toks) /\ toks[close] = "}"
             THEN replace_map_call(match.map_name, match.groups) \o MAP_CALL_sub(toks, close + 1)
             ELSE <<toks[i]>> \o MAP_CALL_sub(toks, i + 1)
    ELSE <<toks[i]>> \o MAP_CALL_sub(toks, i + 1)

\* what iterating a mapping key gives: the characters of a string, the items of a tuple
Unpack(key) ==
    IF key.tuple THEN key.parts
    ELSE [i \in DOMAIN key.parts[1] |-> <<key.parts[1][i]>>]

\* _to_jq.normalize_mapping: the nested dictionaries, as the value at each path of keys
normalize_mapping(mapping) ==
    [path \in {Unpack(key) : key \in DOMAIN mapping} |->
        mapping[CHOOSE key \in DOMAIN mapping : Unpack(key) = path]]

\* the text of the program, its tables left out
ProgramText(decls, regex, repl) ==
    Flatten([i \in DOMAIN decls |-> <<"<table>", "as", "$", decls[i].name, "|">>])
        \o <<"gsub(", "\"">> \o regex \o <<"\"", ";", "\"">> \o repl \o <<"\"", ")">>

\* _to_jq.__new__; order is the order in which the set map_calls is iterated
to_jq(rule, order) ==
    LET regex == Render(rule.pattern)
        repl == rule.replacement
        NotImplemented(why) ==
            [state |-> "raised", decls |-> <<>>, regex |-> <<>>, repl |-> <<>>,
             err |-> Raise("NotImplementedError", why)]
    IN  IF "\"" \in Range(regex) THEN NotImplemented("cannot escape regex")
        ELSE IF "\"" \in Range(repl) THEN NotImplemented("cannot escape replacement")
        ELSE IF rule.flags # 0 THEN NotImplemented("does not support Python re.flags")
        ELSE IF rule.count # 0 THEN NotImplemented("does not support count")
        ELSE [state |-> "returned",
              decls |-> [i \in DOMAIN order |->
                            [name |-> order[i][1],
                             table |-> normalize_mapping(rule.maps[order[i][1]])]],
              regex |-> BACKREF_sub(GROUP_sub(regex, 1), 1),
              repl |-> MAP_CALL_sub(REPLREF_sub(repl, 1), 1),
              err |-> NoError]

-----------------------------------------------------------------------------
(* jq: what the emitted program does on a line, as the tests run it *)

\* a jq string literal: \\ stands for one backslash
JqUnescape(toks) == [i \in DOMAIN toks |-> IF toks[i] = "\\\\k<" THEN "\\k<" ELSE toks[i]]

JqSyntaxError == [ok |-> FALSE, items |-> <<>>, next |-> 0]

\* the regular expression jq's engine reads: (?<name>...), \k<name>, (a|b), characters
RECURSIVE JqParseSeq(_, _)
JqParseSeq(toks, i) ==
    IF i > Len(toks) \/ toks[i] = ")" THEN [ok |-> TRUE, items |-> <<>>, next |-> i]
    ELSE LET t == toks[i] IN
         IF t = "(?<"
         THEN IF i + 2 <= Len(toks) /\ IsWord(toks[i+1]) /\ toks[i+2] = ">"
              THEN LET inner == JqParseSeq(toks, i + 3) IN
                   IF inner.ok /\ inner.next <= Len(toks)
                   THEN LET rest == JqParseSeq(toks, inner.next + 1) IN
                        IF rest.ok
                        THEN [rest EXCEPT !.items = <<Grp(toks[i+1], inner.items)>> \o @]
                        ELSE JqSyntaxError
                   ELSE JqSyntaxError
              ELSE JqSyntaxError
         ELSE IF t = "("
         THEN IF \E j \in (i+2)..Len(toks) : toks[j] = ")"
              THEN LET j == CHOOSE j \in (i+2)..Len(toks) :
                                toks[j] = ")" /\ \A h \in (i+1)..(j-1) : toks[h] # ")"
                       well == /\ (j - i) % 2 = 0
                               /\ \A h \in (i+1)..(j-1) :
                                      IF (h - i) % 2 = 1 THEN IsWord(toks[h]) ELSE toks[h] = "|"
                       rest == JqParseSeq(toks, j + 1)
                   IN  IF well /\ rest.ok
                       THEN [rest EXCEPT !.items =
                                <<Alt([h \in 1..((j - i) \div 2) |-> toks[i + 2 * h - 1]])>> \o @]
                       ELSE JqSyntaxError
              ELSE JqSyntaxError
         ELSE IF t = "\\k<"
         THEN IF i + 2 <= Len(toks) /\ IsWord(toks[i+1]) /\ toks[i+2] = ">"
              THEN LET rest == JqParseSeq(toks, i + 3) IN
                   IF rest.ok THEN [rest EXCEPT !.items = <<Ref(toks[i+1])>> \o @]
                   ELSE JqSyntaxError
              ELSE JqSyntaxError
         ELSE IF IsWord(t)
         THEN LET rest == JqParseSeq(toks, i + 1) IN
              IF rest.ok THEN [rest EXCEPT !.items = <<Lit(t)>> \o @] ELSE JqSyntaxError
         ELSE JqSyntaxError

JqParse(toks) ==
    LET r == JqParseSeq(toks, 1) IN
    IF r.ok /\ r.next = Len(toks) + 1 /\ re_compile_ok(r.items) THEN r ELSE JqSyntaxError

JqNull == [kind |-> "null", path |-> <<>>, s |-> <<>>]
JqString(str) == [kind |-> "string", path |-> <<>>, s |-> str]
JqObject(path) == [kind |-> "object", path |-> path, s |-> <<>>]
JqError == [kind |-> "error", path |-> <<>>, s |-> <<>>]

IsPrefixOf(p, q) == Len(p) <= Len(q) /\ SubSeq(q, 1, Len(p)) = p

\* .[key] at a value inside a table
JqIndex(table, v, key) ==
    CASE v.kind = "error" -> JqError
      [] v.kind = "null" -> JqNull
      [] v.kind = "string" -> JqError
      [] v.kind = "object" ->
            IF key.kind # "string" THEN JqError
            ELSE LET path == Append(v.path, key.s) IN
                 IF path \in DOMAIN table THEN JqString(table[path])
                 ELSE IF \E q \in DOMAIN table : IsPrefixOf(path, q) THEN JqObject(path)
                 ELSE JqNull

\* .name on the object of the named captures of a match
JqCapture(m, name) ==
    IF name \in DOMAIN m.caps /\ m.caps[name].set THEN JqString(m.caps[name].s) ELSE JqNull

RECURSIVE JqLookup(_, _, _, _)
JqLookup(table, v, m, names) ==
    IF names = <<>> THEN v
    ELSE JqLookup(table, JqIndex(table, v, JqCapture(m, Head(names))), m, Tail(names))

\* "\(value)"
JqInterpolate(v) ==
    CASE v.kind = "string" -> Value(v.s)
      [] v.kind = "null" -> Value(<<"n", "u", "l", "l">>)
      [] v.kind = "object" -> Value(<<"<object>">>)
      [] v.kind = "error" -> Failure(Raise("jq error", "cannot index"))

\* the names between [. and ] up to the closing parenthesis of \($name[.g]...)
RECURSIVE JqPathNames(_, _)
JqPathNames(toks, i) ==
    IF i + 2 <= Len(toks) /\ toks[i] = "[." /\ toks[i + 2] = "]"
    THEN <<toks[i + 1]>> \o JqPathNames(toks, i + 3)
    ELSE <<>>

\* the string the replacement of the program evaluates to for a match
RECURSIVE JqReplacement(_, _, _)
JqReplacement(toks, env, m) ==
    IF toks = <<>> THEN Value(<<>>)
    ELSE LET piece ==
                 IF toks[1] = "\\(." /\ Len(toks) >= 3
                 THEN [used |-> 3, val |-> JqInterpolate(JqCapture(m, toks[2]))]
                 ELSE IF toks[1] = "\\($" /\ Len(toks) >= 3
                 THEN LET names == JqPathNames(toks, 3) IN
                      [used |-> 3 + 3 * Len(names),
                       val |-> IF toks[2] \in DOMAIN env
                               THEN JqInterpolate(JqLookup(env[toks[2]], JqObject(<<>>), m, names))
                               ELSE Failure(Raise("jq error", "variable is not defined"))]
                 ELSE [used |-> 1, val |-> Value(<<toks[1]>>)]
             rest == JqReplacement(SubSeq(toks, piece.used + 1, Len(toks)), env, m)
         IN  IF piece.val.state # "returned" THEN piece.val
             ELSE IF rest.state # "returned" THEN rest
             ELSE Value(piece.val.val \o rest.val)

\* gsub from position pos on
RECURSIVE JqGsubFrom(_, _, _, _, _)
JqGsubFrom(pat, repl, env, t, pos) ==
    LET hits == {i \in pos..(Len(t) + 1) : MatchAt(pat, t, i).ok} IN
    IF hits = {} THEN Value(SubSeq(t, pos, Len(t)))
    ELSE LET i == CHOOSE i \in hits : \A j \in hits : i <= j
             m == MatchAt(pat, t, i)
             r == JqReplacement(repl, env, m)
         IN  IF r.state # "returned" THEN r
             ELSE IF m.end = i
             THEN IF i > Len(t) THEN Value(SubSeq(t, pos, Len(t)) \o r.val)
                  ELSE LET rest == JqGsubFrom(pat, repl, env, t, i + 1) IN
                       IF rest.state # "returned" THEN rest
                       ELSE Value(SubSeq(t, pos, i - 1) \o r.val \o <<t[i]>> \o rest.val)
             ELSE LET rest == JqGsubFrom(pat, repl, env, t, m.end) IN
                  IF rest.state # "returned" THEN rest
                  ELSE Value(SubSeq(t, pos, i - 1) \o r.val \o rest.val)

\* jq.compile(program).input(t).first()
JqRun(prog, t) ==
    LET parsed == JqParse(JqUnescape(prog.regex))
        env == [name \in {prog.decls[i].name : i \in DOMAIN prog.decls} |->
                   LET i == CHOOSE i \in DOMAIN prog.decls :
                                /\ prog.decls[i].name = name
                                /\ \A h \in DOMAIN prog.decls : prog.decls[h].name = name => h <= i
                   IN  prog.decls[i].table]
    IN  IF ~parsed.ok THEN Failure(Raise("jq error", "invalid regular expression"))
        ELSE JqGsubFrom(parsed.items, prog.repl, env, t, 1)

-----------------------------------------------------------------------------
(* The built rule: calls and translation *)

ThisRule == [pattern |-> pattern, replacement |-> replacement, map_calls |-> map_calls,
             maps |-> maps, count |-> count, flags |-> flags]

Init ==
    \E pre \in Prefixes, src \in Sources, suf \in Suffixes, tgt \in Targets,
       ms \in MapSets, opt \in Options :
        Start(pre, src, suf, tgt, opt[1], opt[2], ms)

\* rule(t), the first call
CallRule ==
    /\ pc = "built"
    /\ calls = 0
    /\ \E t \in Texts, order \in Orders(map_calls) :
           /\ text' = t
           /\ output' = Call(ThisRule, t, order)
    /\ calls' = 1
    /\ UNCHANGED <<source, prefix, suffix, target, count, flags, maps, pc, idx, formatter,
                   result, replacement, pattern, map_calls, error, jq, jq_output, shown, twin>>

\* rule(rule(t)): the rule called with what its first call returned
CallAgain ==
    /\ pc = "built"
    /\ calls = 1
    /\ output.state = "returned"
    /\ jq.state = "none"
    /\ \E order \in Orders(map_calls) :
           /\ text' = output.val
           /\ output' = Call(ThisRule, output.val, order)
    /\ calls' = 2
    /\ UNCHANGED <<source, prefix, suffix, target, count, flags, maps, pc, idx, formatter,
                   result, replacement, pattern, map_calls, error, jq, jq_output, shown, twin>>

\* rule.to_jq()
ToJq ==
    /\ pc = "built"
    /\ calls = 0
    /\ jq.state = "none"
    /\ \E order \in Orders(map_calls) : jq' = to_jq(ThisRule, order)
    /\ UNCHANGED <<source, prefix, suffix, target, count, flags, maps, pc, idx, formatter,
                   result, replacement, pattern, map_calls, error, text, output, calls, jq_output, shown, twin>>

\* the emitted program on the line the rule was called with
RunJq ==
    /\ pc = "built"
    /\ jq.state = "returned"
    /\ calls = 1
    /\ jq_output.state = "none"
    /\ jq_output' = JqRun(jq, text)
    /\ UNCHANGED <<source, prefix, suffix, target, count, flags, maps, pc, idx, formatter,
                   result, replacement, pattern, map_calls, error, text, output, calls, jq, shown, twin>>

Next == FormatStep \/ FormatEnd \/ CallRule \/ CallAgain \/ ToJq \/ RunJq

Spec == Init /\ [][Next]_vars

-----------------------------------------------------------------------------
(* Construction: the claims about the template *)

\* the template tokens MiniLanguage has processed without an exception
Processed == IF pc = "failed" /\ error.type = "ValueError" THEN idx - 1
             ELSE IF pc = "format" THEN idx - 1 ELSE Len(target)

\* the token whose processing raised
FailedAtToken == pc = "failed" /\ error.type = "ValueError" /\ idx <= Len(target)

\* '{_}' and '{-_}'
ConsumesSource(tok) == tok = TField(<<"_">>) \/ tok = TField(<<"-", "_">>)

Consumptions(n) == {i \in 1..n : ConsumesSource(target[i])}

IsDrop(tok, n) == tok = TField(<<"-", n>>)

IsCall(tok) == tok.k = "field" /\ MAP_CALL_match(tok.name).ok

\* C1: the source is consumed at most once while a template is compiled.  No
\* template gets past a second '{_}' or '{-_}': at most one of them is among the
\* tokens processed without an exception, whatever stands around them;
\* source_seen tells exactly whether one was processed, so '{+_}' never sets it;
\* and no '{+_}' ever raises.
C1_SourceConsumedOnce ==
    /\ Cardinality(Consumptions(Processed)) <= 1
    /\ (pc = "format" => (formatter.source_seen <=> Consumptions(Processed) # {}))
    /\ (FailedAtToken => target[idx] # TField(<<"+", "_">>))
    /\ (FailedAtToken /\ ConsumesSource(target[idx]) => Consumptions(idx - 1) # {})

\* a second consumption, after a '{+_}' and with a first one before it, has raised
C1_Witness ==
    /\ FailedAtToken
    /\ idx = 3
    /\ target[1] = TField(<<"-", "_">>)
    /\ target[2] = TField(<<"+", "_">>)
    /\ target[3] = TField(<<"_">>)
    /\ error.why = "duplicated source"

\* C2: a target in which '{-v}' occurs twice never gives a rule.
C2_DropTwiceFails ==
    pc = "built" => Cardinality({i \in DOMAIN target : IsDrop(target[i], "v")}) < 2

\* C4: a mapping call whose mapping is not declared never gets processed, so no
\* rule is built from a template that holds one, wherever it stands.
C4_UndeclaredMappingFails ==
    /\ \A i \in 1..Processed :
           IsCall(target[i]) => MAP_CALL_match(target[i].name).map_name \in DOMAIN maps
    /\ (pc = "built" =>
           \A i \in DOMAIN target :
               IsCall(target[i]) => MAP_CALL_match(target[i].name).map_name \in DOMAIN maps)
    /\ (pc # "built" => output = NoResult)

\* an undeclared call in the last place of a template with a declared call has raised
C4_Witness ==
    /\ FailedAtToken
    /\ idx = 3
    /\ IsCall(target[1]) /\ MAP_CALL_match(target[1].name).map_name \in DOMAIN maps
    /\ IsCall(target[3]) /\ MAP_CALL_match(target[3].name).map_name \notin DOMAIN maps
    /\ error.why = "mapping is used but not declared"

-----------------------------------------------------------------------------
(* The built rule: the claims about calls and translation *)

\* the matches re.sub replaces in t, in order
RECURSIVE Replaced(_, _, _, _, _)
Replaced(rule, t, pos, n, must_advance) ==
    IF rule.count # 0 /\ n >= rule.count THEN <<>>
    ELSE LET hits == {i \in pos..(Len(t) + 1) :
                         LET m == MatchAt(rule.pattern, t, i) IN
                         m.ok /\ ~(must_advance /\ i = pos /\ m.end = i)}
         IN  IF hits = {} THEN <<>>
             ELSE LET i == CHOOSE i \in hits : \A j \in hits : i <= j
                      m == MatchAt(rule.pattern, t, i)
                  IN  <<m>> \o Replaced(rule, t, m.end, n + 1, m.end = i)

Contains(str, sub) == \E i \in 1..(Len(str) + 1) : StartsWith(str, i, sub)
EndsWith(str, sub) == Len(sub) <= Len(str) /\ StartsWith(str, Len(str) - Len(sub) + 1, sub)

\* the sub-patterns as they stand in the pattern
PrefixPattern == IF get_groups(prefix) = <<>> THEN EzreGroup(prefix, "prefix") ELSE prefix
SourcePattern == IF get_groups(source) = <<>> THEN EzreGroup(source, "source") ELSE source

\* where the prefix and the source of a match end
PartEnd(items, m) ==
    MatchSeq(items, text, m.start, [n \in Range(Defs(pattern)) |-> NoCapture]).end
PrefixText(m) == SubSeq(text, m.start, PartEnd(PrefixPattern, m) - 1)
SuffixText(m) == SubSeq(text, PartEnd(PrefixPattern \o SourcePattern, m), m.end - 1)

\* what a match is replaced by
ReplacementOf(m) ==
    IF map_calls = {} THEN match_expand(replacement, pattern, m)
    ELSE replacer(ThisRule, m, CHOOSE o \in Orders(map_calls) : TRUE)

\* the pools the template starts from
Pools == LET fm == get_replacement(prefix, suffix, maps)
         IN  Range(fm.prefix_groups) \cup Range(fm.suffix_groups)

\* the template names the group: in a placeholder or as an argument of a mapping call
Mentions(tok, g) ==
    /\ tok.k = "field"
    /\ IF IsCall(tok) THEN g \in Range(MAP_CALL_match(tok.name).groups)
       ELSE GROUP_REF_match(tok.name).ok /\ GROUP_REF_match(tok.name).group = g
Mentioned(g) == \E i \in DOMAIN target : Mentions(target[i], g)

\* a sub-pattern that is wrapped as a whole, or is nothing but named groups, none
\* inside another, and backreferences
OnlyGroups(p) ==
    \/ get_groups(p) = <<>>
    \/ \A i \in DOMAIN p : p[i].k = "ref" \/ (p[i].k = "grp" /\ Defs(p[i].body) = <<>>)

ContextKept ==
    \A i \in DOMAIN Replaced(ThisRule, text, 1, 0, FALSE) :
        LET m == Replaced(ThisRule, text, 1, 0, FALSE)[i]
            r == ReplacementOf(m)
        IN  /\ r.state = "returned"
            /\ StartsWith(r.val, 1, PrefixText(m))
            /\ EndsWith(r.val, SuffixText(m))

C5_OnlyLookupFails ==
    (calls >= 1 /\ output.state = "raised") => output.err.type = "KeyError"

\* C6: a key that the table lacks gives a lookup error that names the mapping and the key.
C6_LookupErrorNamesMapping ==
    (calls >= 1 /\ output.state = "raised" /\ output.err.type = "KeyError")
        => /\ output.err.key # NoKey
           /\ output.err.mapping \in {c[1] : c \in map_calls}

\* plain find-and-replace: every leftmost, non-overlapping match of the source
\* alone is replaced by the target, '{_}' standing for the matched text
RECURSIVE TargetText(_, _)
TargetText(tgt, matched) ==
    IF tgt = <<>> THEN <<>>
    ELSE (IF tgt[1].k = "lit" THEN <<tgt[1].s>>
          ELSE IF tgt[1].name \in {<<"_">>, <<"+", "_">>} THEN matched ELSE <<>>)
             \o TargetText(Tail(tgt), matched)

RECURSIVE FindReplace(_, _, _, _, _)
FindReplace(src, tgt, t, pos, must_advance) ==
    LET hits == {i \in pos..(Len(t) + 1) :
                    LET m == MatchAt(src, t, i) IN
                    m.ok /\ ~(must_advance /\ i = pos /\ m.end = i)}
    IN  IF hits = {} THEN SubSeq(t, pos, Len(t))
        ELSE LET i == CHOOSE i \in hits : \A j \in hits : i <= j
                 m == MatchAt(src, t, i)
             IN  SubSeq(t, pos, i - 1) \o TargetText(tgt, SubSeq(t, i, m.end - 1))
                     \o FindReplace(src, tgt, t, m.end, m.end = i)

SimpleTarget ==
    \A i \in DOMAIN target :
        target[i].k = "lit" \/ target[i].name \in {<<"_">>, <<"+", "_">>, <<"-", "_">>}

\* C7: without prefix, suffix and mappings, and with count 0, a call gives the
\* plain find-and-replace of the source by the target.
C7_PlainFindReplace ==
    (calls = 1 /\ prefix = <<>> /\ suffix = <<>> /\ DOMAIN maps = {} /\ count = 0
         /\ SimpleTarget)
        => output = Value(FindReplace(source, target, text, 1, FALSE))

\* the characters a sub-pattern can match and the characters a template writes
RECURSIVE PatternChars(_)
PatternChars(items) ==
    IF items = <<>> THEN {}
    ELSE Range(Head(items).cs) \cup PatternChars(Head(items).body) \cup PatternChars(Tail(items))

LiteralTarget == \A i \in DOMAIN target : target[i].k = "lit"
TargetChars == {target[i].s : i \in DOMAIN target}

\* the source matches at least one character, and the template writes none it can match
Consuming == ~MatchAt(source, <<>>, 1).ok
Disjoint == Consuming /\ LiteralTarget /\ PatternChars(source) \cap TargetChars = {}

\* C8 as stated: a rule whose source cannot match what its target writes is
\* idempotent: called with what its first call returned, it returns it unchanged.
C8_Idempotent ==
    (calls = 2 /\ Disjoint) => output = Value(text)

\* C8, amended: a rule with no prefix and no suffix, count 0, a source that matches
\* at least one character and a target of at least one literal character, none of
\* which the source can match, is idempotent.
C8_IdempotentWithoutContext ==
    (calls = 2 /\ Disjoint /\ prefix = <<>> /\ suffix = <<>> /\ count = 0 /\ target # <<>>)
        => output = Value(text)

\* a second call on a text in which the first call replaced something
C8_Witness ==
    /\ calls = 2 /\ Disjoint /\ prefix = <<>> /\ suffix = <<>> /\ count = 0
    /\ source = <<Lit("a"), Lit("a")>> /\ target = <<TLit("x")>>
    /\ text = <<"x", "a">>
    /\ output = Value(text)

\* C9: the emitted program gives what the call gives, and fails where the call fails.
C9_JqEquivalent ==
    (jq_output.state # "none")
        => /\ output.state = "returned" => jq_output = output
           /\ output.state = "raised" => jq_output.state = "raised"

\* C10: the program binds one variable for each distinct mapping the template uses,
\* each binding followed by '|', and none when there is no mapping call.
C10_OneBindingPerMapping ==
    (jq.state = "returned")
        => LET prog == ProgramText(jq.decls, jq.regex, jq.repl)
               as == {i \in DOMAIN prog : prog[i] = "as"}
           IN  /\ Cardinality(as) = Cardinality({c[1] : c \in map_calls})
               /\ \A i \in as : prog[i + 1] = "$" /\ prog[i + 3] = "|"
               /\ \A c \in map_calls : \E i \in as : prog[i + 2] = c[1]

-----------------------------------------------------------------------------
(* Display, and a second rule constructed from the same arguments *)

\* the target as the author wrote it: a literal brace doubled, a field in braces
RECURSIVE TemplateString(_)
TemplateString(tgt) ==
    IF tgt = <<>> THEN <<>>
    ELSE (IF tgt[1].k = "lit"
          THEN (IF tgt[1].s \in {"{", "}"} THEN <<tgt[1].s, tgt[1].s>> ELSE <<tgt[1].s>>)
          ELSE <<"{">> \o tgt[1].name \o <<"}">>)
             \o TemplateString(Tail(tgt))

\* Rule.__repr__; order is the order in which the set map_calls is iterated
repr(src, tgt, pre, suf, order) ==
    LET shown_maps == IF order = <<>> THEN <<>>
                      ELSE <<<<"&">>>> \o Join([i \in DOMAIN order |->
                                               <<order[i][1], "=", "<table>">>], <<",">>)
        context == IF Render(pre) = <<>> /\ Render(suf) = <<>> THEN <<>>
                   ELSE <<<<"|">>, Render(pre), <<"_">>, Render(suf)>>
    IN  Flatten(<<<<"<Rule">>, Render(src), <<":=">>, TemplateString(tgt)>> \o context
                    \o shown_maps \o <<<<">">>>>)

\* string.Formatter.vformat over the whole target
RECURSIVE vformat(_, _, _, _)
vformat(tgt, i, fm, res) ==
    IF i > Len(tgt) THEN Returned(res, fm)
    ELSE IF tgt[i].k = "lit" THEN vformat(tgt, i + 1, fm, Append(res, tgt[i].s))
    ELSE LET r == get_field(tgt[i].name, fm) IN
         IF r.ok THEN vformat(tgt, i + 1, r.fm, res \o r.val) ELSE r

\* Rule.__init__ as one step, with the display of the rule it builds
NewRule(pre, src, suf, tgt, ms, order) ==
    LET f == vformat(tgt, 1, get_replacement(pre, suf, ms), <<>>)
        p == get_pattern(pre, src, suf)
    IN  IF f.ok /\ re_compile_ok(p)
        THEN [state |-> "built", pattern |-> p, replacement |-> format(f.val, f.fm),
              map_calls |-> f.fm.map_calls, shown |-> repr(src, tgt, pre, suf, order)]
        ELSE [NoRule EXCEPT !.state = "failed"]

\* repr(rule)
Repr ==
    /\ pc = "built"
    /\ shown.state = "none"
    /\ \E order \in Orders(map_calls) :
           shown' = Value(repr(source, target, prefix, suffix, order))
    /\ UNCHANGED <<source, prefix, suffix, target, count, flags, maps, pc, idx, formatter,
                   result, replacement, pattern, map_calls, error, text, output, calls,
                   jq, jq_output, twin>>

\* Rule(...) once more with the arguments of this rule, and the repr of the new rule
ConstructAgain ==
    /\ pc = "built"
    /\ twin.state = "none"
    /\ \E order \in Orders(map_calls) :
           twin' = NewRule(prefix, source, suffix, target, maps, order)
    /\ UNCHANGED <<source, prefix, suffix, target, count, flags, maps, pc, idx, formatter,
                   result, replacement, pattern, map_calls, error, text, output, calls,
                   jq, jq_output, shown>>

NextRepr == FormatStep \/ FormatEnd \/ Repr \/ ConstructAgain

SpecRepr == Init /\ [][NextRepr]_vars

\* C12: two rules constructed from the same arguments have the same pattern, the
\* same replacement and the same display string.
C12_SameArgumentsSameRule ==
    (shown.state = "returned" /\ twin.state # "none")
        => /\ twin.state = "built"
           /\ twin.pattern = pattern
           /\ twin.replacement = replacement
           /\ twin.shown = shown.val

-----------------------------------------------------------------------------
(* Translation of rules whose text has a double quote or a backslash *)

JqSources  == { <<Lit("a")>>, <<Lit(Quote)>>, <<Lit(EscDot)>>, <<Grp("v", <<AB>>)>> }
JqPrefixes == { <<>>, <<Grp("c", <<AB>>)>> }
JqSuffixes == { <<>>, <<Ref("c")>> }
JqTargets  ==
    { <<TLit("x")>>,
      <<TLit(Quote)>>,
      <<TField(<<"_">>), TLit("x")>>,
      <<TField(<<"-", "_">>), TField(<<"n", "[", "source", "]">>)>> }

InitJq ==
    \E pre \in JqPrefixes, src \in JqSources, suf \in JqSuffixes, tgt \in JqTargets,
       ms \in MapSets, opt \in Options :
        Start(pre, src, suf, tgt, opt[1], opt[2], ms)

NextJq == FormatStep \/ FormatEnd \/ CallRule \/ ToJq \/ RunJq

SpecJq == InitJq /\ [][NextJq]_vars

\* the tokens with a backslash that the translation does not rewrite: in the
\* pattern every one of them, in the replacement all but the \g<name> references
StrayBackslash(toks) == \E i \in DOMAIN toks : toks[i] \in {EscDot, "\\k<", "\\(.", "\\($"}

NeedsEscaping(toks) == Quote \in Range(toks) \/ StrayBackslash(toks)

\* C11: to_jq returns no program when count is not 0, when flags is not 0, or when
\* the pattern or the replacement has a double quote or a backslash that the
\* translation does not rewrite.
C11_UnsafeNeverTranslated ==
    (jq.state = "returned")
        => /\ count = 0
           /\ flags = 0
           /\ ~NeedsEscaping(Render(pattern))
           /\ ~NeedsEscaping(replacement)

-----------------------------------------------------------------------------
(* The groups left in the pools *)

\* the inventories the pools start from
PrefixInventory == IF get_groups(prefix) = <<>> THEN <<"prefix">> ELSE get_groups(prefix)
SuffixInventory == IF get_groups(suffix) = <<>> THEN <<"suffix">> ELSE get_groups(suffix)

\* where the template consumes the source (past its end when it never does)
SourceAt ==
    IF Consumptions(Len(target)) = {} THEN Len(target) + 1
    ELSE CHOOSE i \in Consumptions(Len(target)) : \A j \in Consumptions(Len(target)) : i <= j

\* the token removes a group other than the source: '{-name}', or a bare '{name}'
Removes(tok) ==
    /\ tok.k = "field" /\ ~IsCall(tok) /\ tok.name # <<"_">>
    /\ GROUP_REF_match(tok.name).ok
    /\ GROUP_REF_match(tok.name).sign # "+"
    /\ GROUP_REF_match(tok.name).group \notin {"_", "source"}

\* a pool after the tokens from..to of the template: each removal takes the first
\* occurrence of its name out
RECURSIVE Left(_, _, _)
Left(pool, from, to) ==
    IF from > to THEN pool
    ELSE IF Removes(target[from])
    THEN Left(Pop(pool, Index(pool, GROUP_REF_match(target[from].name).group)), from + 1, to)
    ELSE Left(pool, from + 1, to)

Placeholders(groups) == Flatten([i \in DOMAIN groups |-> GRef(groups[i])])

LeftPrefix == Placeholders(Left(PrefixInventory, 1, SourceAt - 1))
LeftSuffix == Placeholders(Left(SuffixInventory, SourceAt + 1, Len(target)))

\* C13 as stated: the placeholders of the groups left in the two pools come after
\* everything the template emitted, each pool in the order of its inventory.
C13_LeftGroupsAppended ==
    pc = "built" =>
        \/ replacement = result \o LeftPrefix \o LeftSuffix
        \/ replacement = result \o LeftSuffix \o LeftPrefix

\* C13, amended: the placeholders of the groups left in the prefix pool come before
\* everything the template emitted and those of the groups left in the suffix pool
\* after it, each pool in the order of its inventory.
C13_LeftGroupsAround ==
    pc = "built" => replacement = LeftPrefix \o result \o LeftSuffix

\* a built rule that keeps a prefix group and a suffix group around a template
\* that emits a literal and the source
C13_Witness ==
    /\ pc = "built"
    /\ prefix = <<Grp("v", <<AB>>)>> /\ suffix = <<Grp("c", <<Lit("b")>>)>>
    /\ target = <<TLit("x"), TField(<<"_">>)>>
    /\ replacement = GRef("v") \o <<"x">> \o GRef("source") \o GRef("c")

-----------------------------------------------------------------------------
(* Braces in the text and in the template of a rule with mapping calls *)

BraceChars == {"a", "{", "}"}
BraceTexts == SeqsUpTo(BraceChars, MaxLen)

BracePrefixes == { <<>>, <<Lit("{")>>, <<Grp("c", <<Alt(<<"{", "a">>)>>)>> }
BraceSources  == { <<Lit("a")>>, <<AB>> }
BraceSuffixes == { <<>>, <<Lit("}")>> }
BraceTargets  ==
    { <<TField(<<"-", "_">>), TField(<<"n", "[", "source", "]">>)>>,
      <<TLit("{"), TField(<<"-", "_">>), TField(<<"n", "[", "source", "]">>)>>,
      <<TLit("{"), TField(<<"-", "_">>), TField(<<"n", "[", "source", "]">>), TLit("}")>>,
      <<TLit("{"), TField(<<"_">>), TLit("}")>> }

InitBraces ==
    \E pre \in BracePrefixes, src \in BraceSources, suf \in BraceSuffixes,
       tgt \in BraceTargets, ms \in MapSets, opt \in Options :
        Start(pre, src, suf, tgt, opt[1], opt[2], ms)

\* rule(t) on a text that may hold braces
CallBraces ==
    /\ pc = "built"
    /\ calls = 0
    /\ \E t \in BraceTexts, order \in Orders(map_calls) :
           /\ text' = t
           /\ output' = Call(ThisRule, t, order)
    /\ calls' = 1
    /\ UNCHANGED <<source, prefix, suffix, target, count, flags, maps, pc, idx, formatter,
                   result, replacement, pattern, map_calls, error, jq, jq_output, shown, twin>>

NextBraces == FormatStep \/ FormatEnd \/ CallBraces

SpecBraces == InitBraces /\ [][NextBraces]_vars

\* every mapping call of the rule finds its key for the match
LookupsSucceed(m) ==
    \A c \in map_calls :
        /\ Range(Tail(c)) \subseteq DOMAIN m.caps
        /\ MatchGroup(Tail(c), m) \in DOMAIN maps[c[1]]

\* the replacement with each mapping placeholder filled by the value looked up and
\* each group reference by the captured text, every other token kept as it is
RECURSIVE FilledThenExpanded(_, _)
FilledThenExpanded(repl, m) ==
    IF repl = <<>> THEN <<>>
    ELSE IF repl[1] = "{" /\ MAP_CALL_match(Tail(repl)).ok
            /\ 2 * Len(MAP_CALL_match(Tail(repl)).groups) + 4 <= Len(repl)
            /\ repl[2 * Len(MAP_CALL_match(Tail(repl)).groups) + 4] = "}"
    THEN LET match == MAP_CALL_match(Tail(repl))
             close == 2 * Len(match.groups) + 4
         IN  maps[match.map_name][MatchGroup(match.groups, m)]
                 \o FilledThenExpanded(SubSeq(repl, close + 1, Len(repl)), m)
    ELSE IF Len(repl) >= 3 /\ repl[1] = "\\g<" /\ IsWord(repl[2]) /\ repl[3] = ">"
    THEN m.caps[repl[2]].s \o FilledThenExpanded(SubSeq(repl, 4, Len(repl)), m)
    ELSE <<repl[1]>> \o FilledThenExpanded(Tail(repl), m)

\* C14: for a rule with mapping calls, each match is replaced by the replacement
\* with its mapping placeholders filled and then its groups substituted, so that
\* captured text and the author's literal braces come out as they are.
C14_FillThenSubstitute ==
    (calls = 1 /\ map_calls # {} /\ flags = 0
         /\ TemplateRefs(replacement) \subseteq Range(Defs(pattern)))
        => \A i \in DOMAIN Replaced(ThisRule, text, 1, 0, FALSE) :
               LET m == Replaced(ThisRule, text, 1, 0, FALSE)[i] IN
               LookupsSucceed(m) => ReplacementOf(m) = Value(FilledThenExpanded(replacement, m))

-----------------------------------------------------------------------------
(* Mapping tables with keys of one character, of two characters, and of two strings *)

\* w is keyed by the string "aa"; t2 by two captures, the first of two characters
TableW  == [key \in {Key(<<"a", "a">>), Key(<<"a", "b">>)} |-> IF key = Key(<<"a", "a">>) THEN <<"x">> ELSE <<"b">>]
TableT2 == [key \in {TKey(<<<<"a", "a">>, <<"a">>>>), TKey(<<<<"b">>, <<"a">>>>)} |-> key.parts[2]]

MappingSets ==
    { [n \in {"n"} |-> TableN], [n \in {"n"} |-> TableW], [n \in {"n"} |-> TableT],
      [n \in {"n"} |-> TableT2] }

MappingSources  == { <<Lit("a")>>, <<Lit("a"), Lit("a")>>, <<AB>> }
MappingPrefixes == { <<>>, <<Grp("c", <<AB>>)>>, <<Grp("c", <<Lit("a"), Lit("a")>>)>> }
MappingTargets  ==
    { <<TField(<<"-", "_">>), TField(<<"n", "[", "source", "]">>)>>,
      <<TField(<<"-", "_">>), TField(<<"n", "[", "c", ",", "source", "]">>)>>,
      <<TField(<<"_">>), TLit("x")>> }

InitMapping ==
    \E pre \in MappingPrefixes, src \in MappingSources, tgt \in MappingTargets,
       ms \in MappingSets :
        Start(pre, src, <<>>, tgt, 0, 0, ms)

NextMapping == FormatStep \/ FormatEnd \/ CallRule \/ ToJq \/ RunJq

SpecMapping == InitMapping /\ [][NextMapping]_vars

\* the strings of a key, in order: one for a bare string
KeyStrings(key) == key.parts

\* C15: the serialized table of a mapping whose keys have k strings is k levels
\* deep, and following the strings of a key reaches the value of the key; a table
\* keyed by bare strings is one level deep.
C15_OneLevelPerKeyString ==
    (jq.state = "returned")
        => \A i \in DOMAIN jq.decls :
               LET mapping == maps[jq.decls[i].name]
                   table == jq.decls[i].table
               IN  \A key \in DOMAIN mapping :
                       /\ KeyStrings(key) \in DOMAIN table
                       /\ table[KeyStrings(key)] = mapping[key]
                       /\ \A path \in DOMAIN table : Len(path) = Len(KeyStrings(key))

-----------------------------------------------------------------------------
(* The default groups of the compiled pattern *)

\* the group names a sub-pattern refers back to, at any depth
RECURSIVE Backrefs(_)
Backrefs(items) ==
    IF items = <<>> THEN <<>>
    ELSE LET it == Head(items) IN
         (IF it.k = "ref" THEN <<it.n>> ELSE IF it.k = "grp" THEN Backrefs(it.body) ELSE <<>>)
             \o Backrefs(Tail(items))

WrappedUnlessDefining(p, name) == IF Defs(p) = <<>> THEN <<Grp(name, p)>> ELSE p

WrappedUnlessNaming(p, name) ==
    IF Defs(p) = <<>> /\ Backrefs(p) = <<>> THEN <<Grp(name, p)>> ELSE p

\* C16 as stated: each sub-pattern of the compiled pattern is wrapped in its
\* default group exactly when it defines no named group.
C16_WrappedUnlessDefining ==
    pc = "built"
        => pattern = WrappedUnlessDefining(prefix, "prefix")
                         \o WrappedUnlessDefining(source, "source")
                         \o WrappedUnlessDefining(suffix, "suffix")

\* C16 amended: each sub-pattern of the compiled pattern is wrapped in its
\* default group exactly when it neither defines a named group nor refers back
\* to one; otherwise it is used verbatim.
C16_WrappedUnlessNaming ==
    pc = "built"
        => pattern = WrappedUnlessNaming(prefix, "prefix")
                         \o WrappedUnlessNaming(source, "source")
                         \o WrappedUnlessNaming(suffix, "suffix")

\* a built rule whose suffix only refers back to a group of the prefix
C16_Witness ==
    /\ pc = "built"
    /\ prefix = <<Grp("v", <<AB>>)>> /\ source = <<Lit("a")>> /\ suffix = <<Ref("v")>>
    /\ pattern = <<Grp("v", <<AB>>), Grp("source", <<Lit("a")>>), Ref("v")>>

-----------------------------------------------------------------------------
(* The names get_groups lists *)

\* the names a sub-pattern defines or refers back to, one per occurrence, in the
\* order of the text
RECURSIVE Occurrences(_)
Occurrences(items) ==
    IF items = <<>> THEN <<>>
    ELSE LET it == Head(items) IN
         (IF it.k = "ref" THEN <<it.n>>
          ELSE IF it.k = "grp" THEN <<it.n>> \o Occurrences(it.body)
          ELSE <<>>) \o Occurrences(Tail(items))

\* the first occurrence of each name, in order
FirstOccurrences(names) ==
    SelectSeq([i \in DOMAIN names |-> [n |-> names[i], first |-> \A j \in 1..(i-1) : names[j] # names[i]]],
              LAMBDA e : e.first)

\* C17: get_groups lists every name a sub-pattern defines or refers back to
\* exactly once, in the order of the first occurrences.
C17_EachNameOnce ==
    \A p \in {prefix, source, suffix} :
        LET firsts == FirstOccurrences(Occurrences(p))
        IN  get_groups(p) = [i \in DOMAIN firsts |-> firsts[i].n]

-----------------------------------------------------------------------------
(* The groups a built rule refers to *)

\* the argument groups of the recorded mapping calls
CallGroups == UNION {Range(Tail(c)) : c \in map_calls}

\* C18: the group placeholders of the replacement and the argument groups of the
\* mapping calls of a built rule all name groups that the compiled pattern
\* defines, so no call fails on an unknown group.
C18_ReferencesDefined ==
    /\ pc = "built"
           => /\ TemplateRefs(replacement) \subseteq Range(Defs(pattern))
              /\ CallGroups \subseteq Range(Defs(pattern))
    /\ (calls >= 1 /\ output.state = "raised") => output.err.type # "IndexError"

====
